---- MODULE Spec2Model ----
(***************************************************************************)
(* A model of the graph library of src/src/graph.rs: the adjacency-map     *)
(* Graph<N, W>, its Bfs iterator, connected_components, and the Dijkstra   *)
(* search object with shortest_path and all_shortest_paths; and of the     *)
(* Grid<T> container of src/src/lib.rs.                                    *)
(*                                                                         *)
(* Node labels are small integers (N = i32 in the tests), edge weights     *)
(* small naturals (W = usize in the tests).  HashMap                       *)
(* and HashSet values are functions and sets; wherever the code's result   *)
(* depends on a hash container's iteration order the model takes every     *)
(* order.                                                                  *)
(***************************************************************************)
EXTENDS Integers, Sequences, FiniteSets, TLC

\* The bound of the model: how many edges a graph under construction may hold.
MaxEdges == 3

\* The node labels and weights the calls of each specification draw from.
Nodes == 1..4
Weights == 0..2
GraphNodes == 1..3
GraphWeights == 1..2
BfsNodes == 1..4
BfsWeights == 1..2
ComponentNodes == 1..3
ComponentWeights == 1..2
DijkstraNodes == 1..3
DijkstraWeights == 0..2
OrderNodes == 1..3
OrderWeights == 0..2
RetryNodes == 1..3
RetryWeights == 1..2
SubgraphNodes == 1..3
SubgraphWeights == 1..2
\* the node slices subgraph is called with: repeats and labels foreign to the
\* graph included
SubgraphLists == UNION {[1..n -> SubgraphNodes] : n \in 0..3}

\* The longest text parse_str is given, in characters.
MaxText == 4

\* The characters of a text: two ASCII letters, U+00E9 (two bytes in UTF-8)
\* and the line feed.  No carriage return: lines() then splits at "\n" only.
Chars == {"a", "b", "e_acute", "\n"}
Texts == UNION {[1..n -> Chars] : n \in 0..MaxText}
\* Grid::new is called with these widths and heights; coordinates reach one
\* past them.
Sizes == 0..2
Coords == 0..2
\* the linear indices idx_to_xy is called with
Idxs == 0..4
\* the fill value, and the values written to cells
Defaults == {0}
Written == {9}

VARIABLES
    graph,      \* the Graph: [adjacency_map, directed]
    call,       \* the most recent API call: [op, args, replaced]
    pc,         \* which object borrows the graph / which loop is running
    bfs,        \* the Bfs iterator: [queue, visited]
    yielded,    \* the items the live iterator has returned so far, in order
    dijkstra,   \* the Dijkstra object: [distances, predecessors, queue]
    all_predecessors, \* the local map of all_shortest_paths
    components, \* the closure state of connected_components: [nodes, visited]
    result,     \* the value returned by the last call that returns one
    grid        \* the Grid: [data, width, height]

vars == <<graph, call, pc, bfs, yielded, dijkstra, all_predecessors, components, result, grid>>

(***************************************************************************)
(* Option<T>, HashMap<K, V>                                                *)
(***************************************************************************)
None == <<"None">>
Some(x) == <<"Some", x>>
IsSome(o) == o[1] = "Some"
Unwrap(o) == o[2]

EmptyMap == [k \in {} |-> 0]

\* HashMap::get
MapGet(m, k) == IF k \in DOMAIN m THEN Some(m[k]) ELSE None

\* HashMap::insert: the value of an existing key is overwritten
MapInsert(m, k, v) == [x \in (DOMAIN m) \cup {k} |-> IF x = k THEN v ELSE m[x]]

\* the value HashMap::entry(k).or_default() gives access to
OrDefault(m, k) == IF k \in DOMAIN m THEN m[k] ELSE EmptyMap

(***************************************************************************)
(* Graph<N, W>                                                             *)
(***************************************************************************)
new(is_directed) == [adjacency_map |-> EmptyMap, directed |-> is_directed]

undirected == new(FALSE)

directed == new(TRUE)

add_node(g, node) ==
    [g EXCEPT !.adjacency_map = MapInsert(@, node, OrDefault(@, node))]

\* mutant of add_edge_weighted: the undirected branch forgets the mirror edge
add_edge_weighted_no_mirror(g, from, to, weight) ==
    [g EXCEPT !.adjacency_map =
        MapInsert(@, from, MapInsert(OrDefault(@, from), to, weight))]

\* mutant of add_edge_weighted: an existing edge keeps its first weight
add_edge_weighted_keep_first(g, from, to, weight) ==
    LET ins(m, a, b) ==
            IF a \in DOMAIN m /\ b \in DOMAIN m[a]
            THEN m
            ELSE MapInsert(m, a, MapInsert(OrDefault(m, a), b, weight))
    IN  IF g.directed
        THEN [g EXCEPT !.adjacency_map = ins(@, from, to)]
        ELSE [g EXCEPT !.adjacency_map = ins(ins(@, from, to), to, from)]

add_edge_weighted(g, from, to, weight) ==
    IF g.directed
    THEN [g EXCEPT !.adjacency_map =
            MapInsert(@, from, MapInsert(OrDefault(@, from), to, weight))]
    ELSE LET m1 == MapInsert(g.adjacency_map, from,
                        MapInsert(OrDefault(g.adjacency_map, from), to, weight))
             m2 == MapInsert(m1, to, MapInsert(OrDefault(m1, to), from, weight))
         IN  [g EXCEPT !.adjacency_map = m2]

\* W::one()
One == 1

\* W::zero()
Zero == 0

add_edge(g, from, to) == add_edge_weighted(g, from, to, One)

RECURSIVE SortedSeq(_)
\* Itertools::sorted over a set of nodes (N: Ord is the integer order)
SortedSeq(S) ==
    IF S = {} THEN <<>>
    ELSE LET m == CHOOSE x \in S : \A y \in S : x <= y
         IN  <<m>> \o SortedSeq(S \ {m})

\* the labels nodes() returns, as a set
NodeSet(g) ==
    (DOMAIN g.adjacency_map)
        \cup UNION {DOMAIN g.adjacency_map[k] : k \in DOMAIN g.adjacency_map}

\* mutant of nodes: the chained keys of the inner maps are forgotten
nodes_keys_only(g) == SortedSeq(DOMAIN g.adjacency_map)

nodes(g) == SortedSeq(NodeSet(g))

has_edge(g, from, to) ==
    from \in DOMAIN g.adjacency_map /\ to \in DOMAIN g.adjacency_map[from]

get_weight(g, from, to) ==
    IF from \in DOMAIN g.adjacency_map
    THEN MapGet(g.adjacency_map[from], to)
    ELSE None

\* mutant of neighbors: a node without entry has the empty set of neighbours
neighbors_or_empty(g, node) ==
    IF node \in DOMAIN g.adjacency_map
    THEN Some(DOMAIN g.adjacency_map[node])
    ELSE Some({})

neighbors(g, node) ==
    IF node \in DOMAIN g.adjacency_map
    THEN Some(DOMAIN g.adjacency_map[node])
    ELSE None

neighbors_weighted(g, node) == MapGet(g.adjacency_map, node)

\* the edge_pairs() iterator, as a set of <<from, to>>
edge_pairs(g) == {p \in Nodes \X Nodes : has_edge(g, p[1], p[2])}

\* the edges() iterator, as a set of <<from, to, weight>>
edges(g) == {<<p[1], p[2], g.adjacency_map[p[1]][p[2]]>> : p \in edge_pairs(g)}

\* How many edges the graph holds: map entries of a directed graph, unordered
\* pairs of an undirected one.  Bounds the construction.
EdgeLoad(g) ==
    IF g.directed THEN Cardinality(edge_pairs(g))
    ELSE Cardinality({{p[1], p[2]} : p \in edge_pairs(g)})


Range(seq) == {seq[i] : i \in 1..Len(seq)}

\* every order in which a hash container may hand out the elements of S
Orders(S) ==
    {f \in [1..Cardinality(S) -> S] : \A i, j \in DOMAIN f : i # j => f[i] # f[j]}

RECURSIVE subgraph_edges_unfiltered(_, _, _, _, _)
\* mutant of subgraph_edges: the test nodes.contains(to) is missing
subgraph_edges_unfiltered(sub, from, neighbor_map, todo, node_list) ==
    IF todo = {} THEN sub
    ELSE LET to == CHOOSE n \in todo : TRUE
         IN  subgraph_edges_unfiltered(
                 add_edge_weighted(sub, from, to, neighbor_map[to]),
                 from, neighbor_map, todo \ {to}, node_list)

RECURSIVE subgraph_edges(_, _, _, _, _)
\* the inner loop of subgraph: for (to, weight) in neighbors.  Every order writes
\* the same entries: a directed graph's entry <<from, to>> is written once, and
\* the two writes of an undirected graph's entry carry the mirrored weight.
subgraph_edges(sub, from, neighbor_map, todo, node_list) ==
    IF todo = {} THEN sub
    ELSE LET to == CHOOSE n \in todo : TRUE
             sub1 == IF to \in Range(node_list)
                     THEN add_edge_weighted(sub, from, to, neighbor_map[to])
                     ELSE sub
         IN  subgraph_edges(sub1, from, neighbor_map, todo \ {to}, node_list)

RECURSIVE subgraph_nodes(_, _, _, _)
\* the outer loop of subgraph: for from in nodes
subgraph_nodes(sub, g, node_list, i) ==
    IF i > Len(node_list) THEN sub
    ELSE LET from == node_list[i]
             sub1 == add_node(sub, from)
             nw == neighbors_weighted(g, from)
             sub2 == IF IsSome(nw)
                     THEN subgraph_edges(sub1, from, Unwrap(nw),
                                         DOMAIN Unwrap(nw), node_list)
                     ELSE sub1
         IN  subgraph_nodes(sub2, g, node_list, i + 1)

subgraph(g, node_list) == subgraph_nodes(new(g.directed), g, node_list, 1)

(***************************************************************************)
(* Bfs                                                                     *)
(***************************************************************************)
bfs_new(start) == [queue |-> <<start>>, visited |-> {start}]

\* mutant of bfs_next: a node is marked visited when dequeued, not when enqueued
bfs_next_mark_on_dequeue(g, it) ==
    IF it.queue = <<>> THEN {[bfs |-> it, item |-> None]}
    ELSE LET current == Head(it.queue)
             visited1 == it.visited \cup {current}
             nb == neighbors(g, current)
             fresh == IF IsSome(nb) THEN Unwrap(nb) \ visited1 ELSE {}
         IN  {[bfs |-> [queue |-> Tail(it.queue) \o order, visited |-> visited1],
               item |-> Some(current)] : order \in Orders(fresh)}

\* mutant of bfs_next: the frontier is a stack (push_front instead of push_back)
bfs_next_push_front(g, it) ==
    IF it.queue = <<>> THEN {[bfs |-> it, item |-> None]}
    ELSE LET current == Head(it.queue)
             visited1 == it.visited \cup {current}
             nb == neighbors(g, current)
             fresh == IF IsSome(nb) THEN Unwrap(nb) \ visited1 ELSE {}
         IN  {[bfs |-> [queue |-> order \o Tail(it.queue),
                        visited |-> visited1 \cup fresh],
               item |-> Some(current)] : order \in Orders(fresh)}

\* mutant of bfs_next: the visited set is neither consulted nor extended for
\* the neighbours
bfs_next_revisit(g, it) ==
    IF it.queue = <<>> THEN {[bfs |-> it, item |-> None]}
    ELSE LET current == Head(it.queue)
             visited1 == it.visited \cup {current}
             nb == neighbors(g, current)
             fresh == IF IsSome(nb) THEN Unwrap(nb) ELSE {}
         IN  {[bfs |-> [queue |-> Tail(it.queue) \o order, visited |-> visited1],
               item |-> Some(current)] : order \in Orders(fresh)}

\* Iterator::next of Bfs: the outcomes [bfs, item], one per iteration order of
\* the neighbour HashSet.  The unvisited neighbours are distinct, so the loop
\* pushes them in the order the set hands them out.
bfs_next(g, it) ==
    IF it.queue = <<>> THEN {[bfs |-> it, item |-> None]}
    ELSE LET current == Head(it.queue)
             visited1 == it.visited \cup {current}
             nb == neighbors(g, current)
             fresh == IF IsSome(nb) THEN Unwrap(nb) \ visited1 ELSE {}
         IN  {[bfs |-> [queue |-> Tail(it.queue) \o order,
                        visited |-> visited1 \cup fresh],
               item |-> Some(current)] : order \in Orders(fresh)}

RECURSIVE bfs_collect(_, _)
\* Iterator::collect over a Bfs: every sequence the iteration may produce
bfs_collect(g, it) ==
    UNION {IF IsSome(o.item)
           THEN {<<Unwrap(o.item)>> \o rest : rest \in bfs_collect(g, o.bfs)}
           ELSE {<<>>} : o \in bfs_next(g, it)}

(***************************************************************************)
(* connected_components                                                    *)
(***************************************************************************)
Reverse(seq) == [i \in 1..Len(seq) |-> seq[Len(seq) + 1 - i]]

Ok(x) == <<"Ok", x>>
Err(x) == <<"Err", x>>

\* mutant of connected_components: the directed check is missing
connected_components_unchecked(g) ==
    Ok([nodes |-> Reverse(nodes(g)), visited |-> {}])

\* mutant of connected_components: the sorted node list is not reversed, so
\* the closure pops the largest node first
connected_components_descending(g) ==
    IF g.directed
    THEN Err("Cannot find connected components of a directed graph")
    ELSE Ok([nodes |-> nodes(g), visited |-> {}])

\* the call itself: the error, or the state the returned closure captures
connected_components(g) ==
    IF g.directed
    THEN Err("Cannot find connected components of a directed graph")
    ELSE Ok([nodes |-> Reverse(nodes(g)), visited |-> {}])

\* mutant of components_next: the component's nodes are neither removed from
\* the node list nor remembered as visited
components_next_no_retain(g, st) ==
    IF st.nodes = <<>> THEN {[components |-> st, item |-> None]}
    ELSE LET node == st.nodes[Len(st.nodes)]
             rest == SubSeq(st.nodes, 1, Len(st.nodes) - 1)
         IN  {[components |-> [nodes |-> rest, visited |-> st.visited],
               item |-> Some(subgraph(g, component))] :
                    component \in bfs_collect(g, bfs_new(node))}

RECURSIVE components_next(_, _)
\* the closure of connected_components: the outcomes [components, item], one per
\* order bfs(node).collect() may produce
components_next(g, st) ==
    IF st.nodes = <<>> THEN {[components |-> st, item |-> None]}
    ELSE LET node == st.nodes[Len(st.nodes)]
             rest == SubSeq(st.nodes, 1, Len(st.nodes) - 1)
         IN  IF node \in st.visited
             THEN components_next(g, [st EXCEPT !.nodes = rest])
             ELSE {[components |->
                        [nodes |-> SelectSeq(rest, LAMBDA n : n \notin Range(component)),
                         visited |-> st.visited \cup Range(component)],
                    item |-> Some(subgraph(g, component))] :
                        component \in bfs_collect(g, bfs_new(node))}

(***************************************************************************)
(* Dijkstra                                                                *)
(***************************************************************************)
State(node, distance) == [node |-> node, distance |-> distance]

\* Ord::cmp of integers
Cmp(a, b) == IF a < b THEN "Less" ELSE IF a > b THEN "Greater" ELSE "Equal"

\* mutant of state_cmp: the distance ordering is not flipped (a max-heap)
state_cmp_not_flipped(self, other) ==
    LET o == Cmp(self.distance, other.distance)
    IN  IF o # "Equal" THEN o ELSE Cmp(self.node, other.node)

\* Ord for State: the distances compared flipped, then the nodes
state_cmp(self, other) ==
    LET o == Cmp(other.distance, self.distance)
    IN  IF o # "Equal" THEN o ELSE Cmp(self.node, other.node)

\* BinaryHeap::pop takes the greatest entry.  The heap is a set: an entry is
\* pushed only with a distance strictly below the node's recorded one (or for a
\* node without one), so no entry is ever pushed twice.
heap_top(queue) ==
    CHOOSE s \in queue : \A t \in queue \ {s} : state_cmp(s, t) = "Greater"

dijkstra_new(start) ==
    [distances |-> MapInsert(EmptyMap, start, Zero),
     predecessors |-> EmptyMap,
     queue |-> {State(start, Zero)}]

\* what a call leaves behind when the loop of reconstruct_path never ends
Diverges == <<"Diverges">>

RECURSIVE reconstruct_walk(_, _, _, _)
\* the while loop of reconstruct_path; it ends at a node without predecessor.
\* A walk longer than the predecessor map has keys has entered a cycle, where
\* the loop never ends: <<>> stands for that (a walk that ends holds end).
reconstruct_walk(predecessors, current, path, fuel) ==
    IF current \notin DOMAIN predecessors THEN path
    ELSE IF fuel = 0 THEN <<>>
    ELSE reconstruct_walk(predecessors, predecessors[current],
                          Append(path, predecessors[current]), fuel - 1)

reconstruct_path(d, end) ==
    Reverse(reconstruct_walk(d.predecessors, end, <<end>>,
                             Cardinality(DOMAIN d.predecessors)))

\* return Some((self.reconstruct_path(end), distance))
return_path(d, end, distance) ==
    LET path == reconstruct_path(d, end)
    IN  IF path = <<>> THEN Diverges ELSE Some(<<path, distance>>)

RECURSIVE relax_predecessor_always(_, _, _, _, _)
\* mutant of relax: the predecessor is recorded for every edge looked at, not
\* only for an edge that improves the distance
relax_predecessor_always(d, node, distance, neighbor_map, todo) ==
    IF todo = {} THEN d
    ELSE LET next == CHOOSE n \in todo : TRUE
             next_distance == distance + neighbor_map[next]
             d1 == IF next \notin DOMAIN d.distances
                      \/ next_distance < d.distances[next]
                   THEN [distances |-> MapInsert(d.distances, next, next_distance),
                         predecessors |-> MapInsert(d.predecessors, next, node),
                         queue |-> d.queue \cup {State(next, next_distance)}]
                   ELSE [d EXCEPT !.predecessors = MapInsert(@, next, node)]
         IN  relax_predecessor_always(d1, node, distance, neighbor_map, todo \ {next})

RECURSIVE relax_keep_predecessor(_, _, _, _, _)
\* mutant of relax: an improved distance is recorded, but a predecessor that
\* is already recorded is kept
relax_keep_predecessor(d, node, distance, neighbor_map, todo) ==
    IF todo = {} THEN d
    ELSE LET next == CHOOSE n \in todo : TRUE
             next_distance == distance + neighbor_map[next]
             d1 == IF next \notin DOMAIN d.distances
                      \/ next_distance < d.distances[next]
                   THEN [distances |-> MapInsert(d.distances, next, next_distance),
                         predecessors |-> IF next \in DOMAIN d.predecessors
                                          THEN d.predecessors
                                          ELSE MapInsert(d.predecessors, next, node),
                         queue |-> d.queue \cup {State(next, next_distance)}]
                   ELSE d
         IN  relax_keep_predecessor(d1, node, distance, neighbor_map, todo \ {next})

RECURSIVE relax_on_ties(_, _, _, _, _)
\* mutant of relax: a neighbour is relaxed when the new distance ties the
\* recorded one too
relax_on_ties(d, node, distance, neighbor_map, todo) ==
    IF todo = {} THEN d
    ELSE LET next == CHOOSE n \in todo : TRUE
             next_distance == distance + neighbor_map[next]
             d1 == IF next \notin DOMAIN d.distances
                      \/ next_distance <= d.distances[next]
                   THEN [distances |-> MapInsert(d.distances, next, next_distance),
                         predecessors |-> MapInsert(d.predecessors, next, node),
                         queue |-> d.queue \cup {State(next, next_distance)}]
                   ELSE d
         IN  relax_on_ties(d1, node, distance, neighbor_map, todo \ {next})

RECURSIVE relax(_, _, _, _, _)
\* the for loop of shortest_path over the neighbours of the popped node.  Each
\* iteration reads and writes the entries of its own neighbour only, so every
\* iteration order gives the same maps and the same heap.
relax(d, node, distance, neighbor_map, todo) ==
    IF todo = {} THEN d
    ELSE LET next == CHOOSE n \in todo : TRUE
             next_distance == distance + neighbor_map[next]
             d1 == IF next \notin DOMAIN d.distances
                      \/ next_distance < d.distances[next]
                   THEN [distances |-> MapInsert(d.distances, next, next_distance),
                         predecessors |-> MapInsert(d.predecessors, next, node),
                         queue |-> d.queue \cup {State(next, next_distance)}]
                   ELSE d
         IN  relax(d1, node, distance, neighbor_map, todo \ {next})

\* one iteration of the while loop of shortest_path: [dijkstra, ret], ret being
\* Some(value) when the call returns value here (Diverges when it never
\* returns) and None when the loop goes on
shortest_path_step(g, d, end) ==
    IF d.queue = {} THEN [dijkstra |-> d, ret |-> Some(None)]
    ELSE LET top == heap_top(d.queue)
             d1 == [d EXCEPT !.queue = @ \ {top}]
             nw == neighbors_weighted(g, top.node)
         IN  IF top.node = end
             THEN [dijkstra |-> d1, ret |-> Some(return_path(d1, end, top.distance))]
             ELSE IF top.node \in DOMAIN d1.distances
                     /\ top.distance > d1.distances[top.node]
             THEN [dijkstra |-> d1, ret |-> None]
             ELSE IF IsSome(nw)
             THEN [dijkstra |-> relax(d1, top.node, top.distance,
                                      Unwrap(nw), DOMAIN Unwrap(nw)),
                   ret |-> None]
             ELSE [dijkstra |-> d1, ret |-> None]

RECURSIVE relax_in_order_first_only(_, _, _, _, _)
\* mutant of relax_in_order: the loop ends after the first neighbour relaxed
relax_in_order_first_only(d, node, distance, neighbor_map, order) ==
    IF order = <<>> THEN d
    ELSE LET next == Head(order)
             next_distance == distance + neighbor_map[next]
         IN  IF next \notin DOMAIN d.distances \/ next_distance < d.distances[next]
             THEN [distances |-> MapInsert(d.distances, next, next_distance),
                   predecessors |-> MapInsert(d.predecessors, next, node),
                   queue |-> d.queue \cup {State(next, next_distance)}]
             ELSE relax_in_order_first_only(d, node, distance, neighbor_map, Tail(order))

RECURSIVE relax_in_order(_, _, _, _, _)
\* the for loop of shortest_path when the neighbour map hands out its entries
\* in the given order
relax_in_order(d, node, distance, neighbor_map, order) ==
    IF order = <<>> THEN d
    ELSE LET next == Head(order)
             next_distance == distance + neighbor_map[next]
             d1 == IF next \notin DOMAIN d.distances
                      \/ next_distance < d.distances[next]
                   THEN [distances |-> MapInsert(d.distances, next, next_distance),
                         predecessors |-> MapInsert(d.predecessors, next, node),
                         queue |-> d.queue \cup {State(next, next_distance)}]
                   ELSE d
         IN  relax_in_order(d1, node, distance, neighbor_map, Tail(order))

\* the neighbour map the next iteration of a search loop goes over, if any
PoppedNeighbors(g, d) ==
    IF d.queue = {} THEN EmptyMap
    ELSE LET nw == neighbors_weighted(g, heap_top(d.queue).node)
         IN  IF IsSome(nw) THEN Unwrap(nw) ELSE EmptyMap

\* shortest_path_step with the iteration order of the neighbour map given
shortest_path_step_in_order(g, d, end, order) ==
    IF d.queue = {} THEN [dijkstra |-> d, ret |-> Some(None)]
    ELSE LET top == heap_top(d.queue)
             d1 == [d EXCEPT !.queue = @ \ {top}]
             nw == neighbors_weighted(g, top.node)
         IN  IF top.node = end
             THEN [dijkstra |-> d1, ret |-> Some(return_path(d1, end, top.distance))]
             ELSE IF top.node \in DOMAIN d1.distances
                     /\ top.distance > d1.distances[top.node]
             THEN [dijkstra |-> d1, ret |-> None]
             ELSE IF IsSome(nw)
             THEN [dijkstra |-> relax_in_order(d1, top.node, top.distance,
                                               Unwrap(nw), order),
                   ret |-> None]
             ELSE [dijkstra |-> d1, ret |-> None]

RECURSIVE shortest_path_loop(_, _, _)
\* the while loop of Dijkstra::shortest_path run to its return value
shortest_path_loop(g, d, end) ==
    LET o == shortest_path_step(g, d, end)
    IN  IF IsSome(o.ret) THEN Unwrap(o.ret) ELSE shortest_path_loop(g, o.dijkstra, end)

\* Graph::shortest_path: a fresh Dijkstra search from start, asked for end
shortest_path(g, start, end) == shortest_path_loop(g, dijkstra_new(start), end)

\* all_predecessors.entry(k).or_default(), a Vec
PredList(ap, k) == IF k \in DOMAIN ap THEN ap[k] ELSE <<>>

RECURSIVE relax_all(_, _, _, _, _, _)
\* the for loop of all_shortest_paths over the neighbours of the popped node:
\* [dijkstra, all_predecessors].  As in relax, an iteration touches the entries
\* of its own neighbour only.
relax_all(d, ap, node, distance, neighbor_map, todo) ==
    IF todo = {} THEN [dijkstra |-> d, all_predecessors |-> ap]
    ELSE LET next == CHOOSE n \in todo : TRUE
             next_distance == distance + neighbor_map[next]
             best == MapGet(d.distances, next)
             rest == todo \ {next}
         IN  IF IsSome(best) /\ next_distance > Unwrap(best)
             THEN relax_all(d, ap, node, distance, neighbor_map, rest)
             ELSE IF IsSome(best) /\ next_distance = Unwrap(best)
             THEN relax_all(d, MapInsert(ap, next, Append(PredList(ap, next), node)),
                            node, distance, neighbor_map, rest)
             ELSE relax_all(
                    [d EXCEPT !.distances = MapInsert(@, next, next_distance),
                              !.queue = @ \cup {State(next, next_distance)}],
                    MapInsert(ap, next, <<node>>),
                    node, distance, neighbor_map, rest)

\* what a call leaves behind when build_paths overflows the stack
StackOverflow == <<"StackOverflow">>

RECURSIVE build_paths(_, _, _)
RECURSIVE build_paths_over(_, _, _, _)
\* build_paths: [paths, overflow], the paths (end first) it appends to all_paths
\* and whether the stack overflows.  A chain of calls deeper than the map has
\* keys, plus one, has met a key twice: the recursion then never returns.
build_paths(current, ap, current_path) ==
    LET path1 == Append(current_path, current)
    IN  IF Len(path1) > Cardinality(DOMAIN ap) + 1
        THEN [paths |-> <<>>, overflow |-> TRUE]
        ELSE IF current \in DOMAIN ap
        THEN build_paths_over(ap[current], 1, ap, path1)
        ELSE [paths |-> <<path1>>, overflow |-> FALSE]

\* for predecessor in predecessors
build_paths_over(predecessors, i, ap, path1) ==
    IF i > Len(predecessors) THEN [paths |-> <<>>, overflow |-> FALSE]
    ELSE LET here == build_paths(predecessors[i], ap, path1)
             later == build_paths_over(predecessors, i + 1, ap, path1)
         IN  IF here.overflow THEN here
             ELSE [paths |-> here.paths \o later.paths, overflow |-> later.overflow]

\* [paths, overflow], the paths reversed to run from the start to end
reconstruct_all_paths(end, ap) ==
    LET built == build_paths(end, ap, <<>>)
    IN  [built EXCEPT !.paths = [i \in 1..Len(built.paths) |-> Reverse(built.paths[i])]]

\* one iteration of the while loop of all_shortest_paths:
\* [dijkstra, all_predecessors, ret], ret as in shortest_path_step, or
\* Some(StackOverflow) when reconstruct_all_paths never returns
all_shortest_paths_step(g, d, ap, end) ==
    IF d.queue = {} THEN [dijkstra |-> d, all_predecessors |-> ap, ret |-> Some(None)]
    ELSE LET top == heap_top(d.queue)
             d1 == [d EXCEPT !.queue = @ \ {top}]
             nw == neighbors_weighted(g, top.node)
             all_paths == reconstruct_all_paths(end, ap)
         IN  IF top.node = end
             THEN [dijkstra |-> d1, all_predecessors |-> ap,
                   ret |-> IF all_paths.overflow THEN Some(StackOverflow)
                           ELSE Some(Some(<<all_paths.paths, top.distance>>))]
             ELSE IF top.node \in DOMAIN d1.distances
                     /\ top.distance > d1.distances[top.node]
             THEN [dijkstra |-> d1, all_predecessors |-> ap, ret |-> None]
             ELSE IF IsSome(nw)
             THEN relax_all(d1, ap, top.node, top.distance,
                            Unwrap(nw), DOMAIN Unwrap(nw)) @@ [ret |-> None]
             ELSE [dijkstra |-> d1, all_predecessors |-> ap, ret |-> None]

RECURSIVE all_shortest_paths_loop(_, _, _, _)
\* the while loop of Dijkstra::all_shortest_paths run to its return value
all_shortest_paths_loop(g, d, ap, end) ==
    LET o == all_shortest_paths_step(g, d, ap, end)
    IN  IF IsSome(o.ret) THEN Unwrap(o.ret)
        ELSE all_shortest_paths_loop(g, o.dijkstra, o.all_predecessors, end)

\* Dijkstra::new(&g, start).all_shortest_paths(&end)
all_shortest_paths(g, start, end) ==
    all_shortest_paths_loop(g, dijkstra_new(start), EmptyMap, end)

(***************************************************************************)
(* Grid<T>                                                                 *)
(***************************************************************************)
\* what a call leaves behind when it panics (an index out of range)
Panic == <<"Panic">>

\* vec![default; n]
Filled(n, default) == [i \in 1..n |-> default]

grid_new(width, height, default) ==
    [data |-> Filled(width * height, default), width |-> width, height |-> height]

\* char::len_utf8: what a character adds to str::len
len_utf8(c) == IF c = "e_acute" THEN 2 ELSE 1

RECURSIVE str_len(_)
\* str::len, the length in bytes
str_len(line) == IF line = <<>> THEN 0 ELSE len_utf8(Head(line)) + str_len(Tail(line))

RECURSIVE lines_from(_, _, _)
\* str::lines: the text split at each "\n", a last empty line dropped
lines_from(input, i, line) ==
    IF i > Len(input) THEN (IF line = <<>> THEN <<>> ELSE <<line>>)
    ELSE IF input[i] = "\n" THEN <<line>> \o lines_from(input, i + 1, <<>>)
    ELSE lines_from(input, i + 1, Append(line, input[i]))

lines(input) == lines_from(input, 1, <<>>)

RECURSIVE flat_chars(_)
\* lines.iter().flat_map(|line| line.chars())
flat_chars(ls) == IF ls = <<>> THEN <<>> ELSE Head(ls) \o flat_chars(Tail(ls))

RECURSIVE collect_result(_, _, _)
\* .map(convert).collect::<Result<Vec<_>, _>>(): the values up to the first
\* error, which is returned alone
collect_result(chars, convert, acc) ==
    IF chars = <<>> THEN Ok(acc)
    ELSE LET r == convert[Head(chars)]
         IN  IF r[1] = "Err" THEN r
             ELSE collect_result(Tail(chars), convert, Append(acc, r[2]))

\* the conversions parse_str is given: one that accepts every letter and one
\* that accepts "a" alone and names the letter it rejects
convert_any == [c \in Chars |-> Ok(CASE c = "a" -> 1 [] c = "b" -> 2 [] OTHER -> 3)]
convert_only_a == [c \in Chars |-> IF c = "a" THEN Ok(1) ELSE Err(<<"unexpected", c>>)]
Converts == {convert_any, convert_only_a}

parse_str(input, convert, default) ==
    LET ls == lines(input)
    IN  IF ls = <<>> THEN Ok(grid_new(0, 0, default))
        ELSE LET width == str_len(ls[1])
             IN  IF \E i \in 1..Len(ls) : str_len(ls[i]) # width
                 THEN Err("Found line with incorrect width")
                 ELSE LET data == collect_result(flat_chars(ls), convert, <<>>)
                      IN  IF data[1] = "Err" THEN data
                          ELSE Ok([data |-> data[2], width |-> width,
                                   height |-> Len(ls)])

\* &self.data[idx]: the sequence is numbered from 0 in the code, from 1 here
At(g, idx) == IF idx < Len(g.data) THEN Some(g.data[idx + 1]) ELSE Panic

\* mutant of get: the bounds test lets x = width through
get_lenient(g, x, y) ==
    IF x <= g.width /\ y < g.height THEN At(g, y * g.width + x) ELSE None

get(g, x, y) ==
    IF x < g.width /\ y < g.height THEN At(g, y * g.width + x) ELSE None

\* self.data[idx] = v
SetAt(g, idx, v) ==
    IF idx < Len(g.data) THEN Some([g EXCEPT !.data[idx + 1] = v]) ELSE Panic

\* if let Some(cell) = grid.get_mut(x, y) { *cell = v }: the grid after the
\* write, None when get_mut returns None
get_mut(g, x, y, v) ==
    IF x < g.width /\ y < g.height THEN SetAt(g, y * g.width + x, v) ELSE None

\* grid[(x, y)]
index(g, x, y) == At(g, y * g.width + x)

\* grid[(x, y)] = v
index_mut(g, x, y, v) == SetAt(g, y * g.width + x, v)

\* Grid::swap, through slice::swap, which panics on an index out of range
swap(g, a, b) ==
    LET i == a[2] * g.width + a[1]
        j == b[2] * g.width + b[1]
    IN  IF i < Len(g.data) /\ j < Len(g.data)
        THEN Some([g EXCEPT !.data[i + 1] = g.data[j + 1], !.data[j + 1] = g.data[i + 1]])
        ELSE Panic

is_within_extents(g, x, y) == x >= 0 /\ x < g.width /\ y >= 0 /\ y < g.height

\* the offsets neighbors tries, in the order of its two loops
NeighborOffsets ==
    <<<<-1, -1>>, <<0, -1>>, <<1, -1>>, <<-1, 0>>, <<1, 0>>, <<-1, 1>>, <<0, 1>>, <<1, 1>>>>

\* the offsets cardinal_neighbors tries
CardinalOffsets == <<<<0, -1>>, <<1, 0>>, <<0, 1>>, <<-1, 0>>>>

\* the loop body shared by neighbors and cardinal_neighbors: the offsets that
\* lead to a cell of the grid, in order
neighbors_by(g, x, y, offsets) ==
    LET kept == SelectSeq(offsets, LAMBDA d : is_within_extents(g, x + d[1], y + d[2]))
    IN  [i \in 1..Len(kept) |-> <<x + kept[i][1], y + kept[i][2]>>]

\* Grid::neighbors
grid_neighbors(g, x, y) == neighbors_by(g, x, y, NeighborOffsets)

\* mutant of cardinal_neighbors: the offsets are tried left, down, right, up
cardinal_neighbors_reversed(g, x, y) == neighbors_by(g, x, y, Reverse(CardinalOffsets))

cardinal_neighbors(g, x, y) == neighbors_by(g, x, y, CardinalOffsets)

\* Grid::idx_to_xy, Some(value) when it returns: idx % self.width panics when
\* the width is zero
idx_to_xy(g, idx) ==
    IF g.width = 0 THEN Panic
    ELSE LET x == idx % g.width
             y == (idx - x) \div g.width
         IN  Some(<<x, y>>)

\* Grid::iter_row, collected, Some(value) when it returns: the slice data[y * width..(y + 1) * width],
\* which panics when it ends past the data
iter_row(g, y) ==
    IF (y + 1) * g.width > Len(g.data) THEN Panic
    ELSE Some(SubSeq(g.data, y * g.width + 1, (y + 1) * g.width))

RECURSIVE skip_step_by(_, _, _)
\* data.iter().skip(i).step_by(step), collected, for step > 0
skip_step_by(data, i, step) ==
    IF i >= Len(data) THEN <<>>
    ELSE <<data[i + 1]>> \o skip_step_by(data, i + step, step)

\* Grid::iter_col, collected, Some(value) when it returns: step_by panics on a step of zero
iter_col(g, x) ==
    IF g.width = 0 THEN Panic ELSE Some(skip_step_by(g.data, x, g.width))

(***************************************************************************)
(* State                                                                   *)
(***************************************************************************)
Call(op, args, replaced) == [op |-> op, args |-> args, replaced |-> replaced]

NoCall == Call("none", <<>>, None)
NoBfs == [queue |-> <<>>, visited |-> {}]
NoDijkstra == [distances |-> EmptyMap, predecessors |-> EmptyMap, queue |-> {}]
NoComponents == [nodes |-> <<>>, visited |-> {}]
NoResult == <<"Pending">>
\* no Grid is built yet (pc tells): the fields are those of an empty grid
NoGrid == [data |-> <<>>, width |-> 0, height |-> 0]

\* The state after Graph::undirected() or Graph::directed().
Init ==
    /\ graph \in {undirected, directed}
    /\ call = NoCall
    /\ pc = "graph"
    /\ bfs = NoBfs
    /\ yielded = <<>>
    /\ dijkstra = NoDijkstra
    /\ all_predecessors = EmptyMap
    /\ components = NoComponents
    /\ result = NoResult
    /\ grid = NoGrid

\* As Init, with the construction calls recorded in call.
InitGraph ==
    /\ graph \in {undirected, directed}
    /\ call = Call("new", <<graph.directed>>, None)
    /\ pc = "graph"
    /\ bfs = NoBfs
    /\ yielded = <<>>
    /\ dijkstra = NoDijkstra
    /\ all_predecessors = EmptyMap
    /\ components = NoComponents
    /\ result = NoResult
    /\ grid = NoGrid

search_vars == <<bfs, yielded, dijkstra, all_predecessors, components>>

\* call after a construction call c: recorded when the behaviour started from
\* InitGraph, left alone otherwise
Recorded(c) == IF call.op = "none" THEN call ELSE c

(***************************************************************************)
(* Construction                                                            *)
(***************************************************************************)
AddNode(node) ==
    /\ pc = "graph"
    /\ graph' = add_node(graph, node)
    /\ call' = Recorded(Call("add_node", <<node>>, None))
    /\ UNCHANGED <<grid, pc, search_vars, result>>

AddEdge(from, to) ==
    /\ pc = "graph"
    /\ graph' = add_edge(graph, from, to)
    /\ EdgeLoad(graph') <= MaxEdges
    /\ call' = Recorded(Call("add_edge", <<from, to, One>>,
                             get_weight(graph, from, to)))
    /\ UNCHANGED <<grid, pc, search_vars, result>>

AddEdgeWeighted(from, to, weight) ==
    /\ pc = "graph"
    /\ graph' = add_edge_weighted(graph, from, to, weight)
    /\ EdgeLoad(graph') <= MaxEdges
    /\ call' = Recorded(Call("add_edge_weighted", <<from, to, weight>>,
                             get_weight(graph, from, to)))
    /\ UNCHANGED <<grid, pc, search_vars, result>>

NextGraph ==
    \/ \E node \in GraphNodes : AddNode(node)
    \/ \E from \in GraphNodes, to \in GraphNodes : AddEdge(from, to)
    \/ \E from \in GraphNodes, to \in GraphNodes, weight \in GraphWeights :
            AddEdgeWeighted(from, to, weight)

SpecGraph == InitGraph /\ [][NextGraph]_vars

(***************************************************************************)
(* bfs                                                                     *)
(***************************************************************************)
\* graph.bfs(start)
StartBfs(start) ==
    /\ pc = "graph"
    /\ pc' = "bfs"
    /\ call' = Call("bfs", <<start>>, None)
    /\ bfs' = bfs_new(start)
    /\ yielded' = <<>>
    /\ UNCHANGED <<grid, graph, dijkstra, all_predecessors, components, result>>

\* one call of next() on the Bfs iterator
BfsNext ==
    /\ pc = "bfs"
    /\ \E o \in bfs_next(graph, bfs) :
        /\ bfs' = o.bfs
        /\ result' = o.item
        /\ yielded' = IF IsSome(o.item) THEN Append(yielded, Unwrap(o.item))
                      ELSE yielded
    /\ UNCHANGED <<grid, graph, call, pc, dijkstra, all_predecessors, components>>

NextBfs ==
    \/ \E node \in BfsNodes : AddNode(node)
    \/ \E from \in BfsNodes, to \in BfsNodes, weight \in BfsWeights :
            AddEdgeWeighted(from, to, weight)
    \/ \E start \in BfsNodes : StartBfs(start)
    \/ BfsNext

SpecBfs == Init /\ [][NextBfs]_vars

\* the caller of bfs() drives the iterator (a for loop, collect): a call of
\* next() that is due is eventually made
SpecBfsLive == Init /\ [][NextBfs]_vars /\ WF_vars(BfsNext)

(***************************************************************************)
(* connected_components                                                    *)
(***************************************************************************)
\* graph.connected_components(): an Err leaves the graph as it was, an Ok hands
\* out the iterator
ConnectedComponents ==
    /\ pc = "graph"
    /\ call.op # "connected_components"
    /\ call' = Call("connected_components", <<>>, None)
    /\ LET r == connected_components(graph)
       IN  IF r[1] = "Ok"
           THEN /\ pc' = "components"
                /\ components' = r[2]
                /\ result' = <<"Ok">>
           ELSE /\ pc' = "graph"
                /\ components' = components
                /\ result' = r
    /\ yielded' = <<>>
    /\ UNCHANGED <<grid, graph, bfs, dijkstra, all_predecessors>>

\* one call of next() on the iterator connected_components returned
ComponentsNext ==
    /\ pc = "components"
    /\ \E o \in components_next(graph, components) :
        /\ components' = o.components
        /\ result' = IF IsSome(o.item) THEN <<"Some">> ELSE None
        /\ yielded' = IF IsSome(o.item) THEN Append(yielded, Unwrap(o.item))
                      ELSE yielded
    /\ UNCHANGED <<grid, graph, call, pc, bfs, dijkstra, all_predecessors>>

NextComponents ==
    \/ \E node \in ComponentNodes : AddNode(node)
    \/ \E from \in ComponentNodes, to \in ComponentNodes, weight \in ComponentWeights :
            AddEdgeWeighted(from, to, weight)
    \/ ConnectedComponents
    \/ ComponentsNext

SpecComponents == Init /\ [][NextComponents]_vars

(***************************************************************************)
(* Dijkstra                                                                *)
(***************************************************************************)
\* Dijkstra::new(&graph, start)
DijkstraNew(start) ==
    /\ pc = "graph"
    /\ pc' = "dijkstra"
    /\ call' = Call("Dijkstra::new", <<start>>, None)
    /\ dijkstra' = dijkstra_new(start)
    /\ UNCHANGED <<grid, graph, bfs, yielded, all_predecessors, components, result>>

\* entry of dijkstra.shortest_path(&end); args keeps the start of the search
ShortestPath(end) ==
    /\ pc = "dijkstra"
    /\ result = NoResult
    /\ pc' = "shortest_path"
    /\ call' = Call("shortest_path", <<call.args[1], end>>, None)
    /\ UNCHANGED <<grid, graph, bfs, yielded, dijkstra, all_predecessors, components, result>>

\* one iteration of the while loop of shortest_path
ShortestPathStep ==
    /\ pc = "shortest_path"
    /\ LET o == shortest_path_step(graph, dijkstra, call.args[2])
       IN  /\ dijkstra' = o.dijkstra
           /\ IF IsSome(o.ret)
              THEN /\ pc' = IF Unwrap(o.ret)[1] = "Diverges" THEN "hung" ELSE "dijkstra"
                   /\ result' = Unwrap(o.ret)
              ELSE pc' = pc /\ result' = result
    /\ UNCHANGED <<grid, graph, call, bfs, yielded, all_predecessors, components>>

\* entry of dijkstra.all_shortest_paths(&end)
AllShortestPaths(end) ==
    /\ pc = "dijkstra"
    /\ result = NoResult
    /\ pc' = "all_shortest_paths"
    /\ call' = Call("all_shortest_paths", <<call.args[1], end>>, None)
    /\ all_predecessors' = EmptyMap
    /\ UNCHANGED <<grid, graph, bfs, yielded, dijkstra, components, result>>

\* one iteration of the while loop of all_shortest_paths
AllShortestPathsStep ==
    /\ pc = "all_shortest_paths"
    /\ LET o == all_shortest_paths_step(graph, dijkstra, all_predecessors, call.args[2])
       IN  /\ dijkstra' = o.dijkstra
           /\ all_predecessors' = o.all_predecessors
           /\ IF IsSome(o.ret)
              THEN /\ pc' = IF Unwrap(o.ret)[1] = "StackOverflow" THEN "aborted"
                            ELSE "dijkstra"
                   /\ result' = Unwrap(o.ret)
              ELSE pc' = pc /\ result' = result
    /\ UNCHANGED <<grid, graph, call, bfs, yielded, components>>

NextDijkstra ==
    \/ \E node \in DijkstraNodes : AddNode(node)
    \/ \E from \in DijkstraNodes, to \in DijkstraNodes, weight \in DijkstraWeights :
            AddEdgeWeighted(from, to, weight)
    \/ \E start \in Nodes : DijkstraNew(start)
    \/ \E end \in Nodes : ShortestPath(end)
    \/ ShortestPathStep
    \/ \E end \in Nodes : AllShortestPaths(end)
    \/ AllShortestPathsStep

SpecDijkstra == Init /\ [][NextDijkstra]_vars

\* a call of all_shortest_paths runs on: its while loop takes the next
\* iteration until the call returns or aborts
SpecDijkstraLive == Init /\ [][NextDijkstra]_vars /\ WF_vars(AllShortestPathsStep)

(***************************************************************************)
(* shortest_path under every iteration order of the neighbour maps         *)
(***************************************************************************)
\* one iteration of the while loop of shortest_path, the HashMap of the
\* popped node's neighbours iterated in some order
ShortestPathStepInOrder ==
    /\ pc = "shortest_path"
    /\ \E order \in Orders(DOMAIN PoppedNeighbors(graph, dijkstra)) :
        LET o == shortest_path_step_in_order(graph, dijkstra, call.args[2], order)
        IN  /\ dijkstra' = o.dijkstra
            /\ IF IsSome(o.ret)
               THEN /\ pc' = IF Unwrap(o.ret)[1] = "Diverges" THEN "hung" ELSE "dijkstra"
                    /\ result' = Unwrap(o.ret)
               ELSE pc' = pc /\ result' = result
    /\ UNCHANGED <<grid, graph, call, bfs, yielded, all_predecessors, components>>

NextOrder ==
    \/ \E node \in OrderNodes : AddNode(node)
    \/ \E from \in OrderNodes, to \in OrderNodes, weight \in OrderWeights :
            AddEdgeWeighted(from, to, weight)
    \/ \E start \in OrderNodes : DijkstraNew(start)
    \/ \E end \in OrderNodes : ShortestPath(end)
    \/ ShortestPathStepInOrder

SpecOrder == Init /\ [][NextOrder]_vars

(***************************************************************************)
(* A second query on the same Dijkstra object                              *)
(***************************************************************************)
\* entry of a second dijkstra.shortest_path(&end) on the object a query has
\* returned from; replaced keeps what that query returned
ShortestPathAgain(end) ==
    /\ pc = "dijkstra"
    /\ result # NoResult
    /\ call.replaced = None
    /\ pc' = "shortest_path"
    /\ call' = Call("shortest_path", <<call.args[1], end>>, Some(result))
    /\ result' = NoResult
    /\ UNCHANGED <<grid, graph, bfs, yielded, dijkstra, all_predecessors, components>>

\* entry of a second dijkstra.all_shortest_paths(&end) on that object
AllShortestPathsAgain(end) ==
    /\ pc = "dijkstra"
    /\ result # NoResult
    /\ call.replaced = None
    /\ pc' = "all_shortest_paths"
    /\ call' = Call("all_shortest_paths", <<call.args[1], end>>, Some(result))
    /\ result' = NoResult
    /\ all_predecessors' = EmptyMap
    /\ UNCHANGED <<grid, graph, bfs, yielded, dijkstra, components>>

NextRetry ==
    \/ \E node \in RetryNodes : AddNode(node)
    \/ \E from \in RetryNodes, to \in RetryNodes, weight \in RetryWeights :
            AddEdgeWeighted(from, to, weight)
    \/ \E start \in RetryNodes : DijkstraNew(start)
    \/ \E end \in RetryNodes : ShortestPath(end)
    \/ ShortestPathStep
    \/ \E end \in RetryNodes : AllShortestPaths(end)
    \/ AllShortestPathsStep
    \/ \E end \in RetryNodes : ShortestPathAgain(end)
    \/ \E end \in RetryNodes : AllShortestPathsAgain(end)

SpecRetry == Init /\ [][NextRetry]_vars

(***************************************************************************)
(* subgraph                                                                *)
(***************************************************************************)
\* let sub = graph.subgraph(&node_list): graph is borrowed shared, the new
\* graph is the result
Subgraph(node_list) ==
    /\ pc = "graph"
    /\ result' = subgraph(graph, node_list)
    /\ call' = Call("subgraph", <<node_list>>, None)
    /\ pc' = "subgraph"
    /\ UNCHANGED <<grid, graph, search_vars>>

NextSubgraph ==
    \/ \E node \in SubgraphNodes : AddNode(node)
    \/ \E from \in SubgraphNodes, to \in SubgraphNodes, weight \in SubgraphWeights :
            AddEdgeWeighted(from, to, weight)
    \/ \E node_list \in SubgraphLists : Subgraph(node_list)

SpecSubgraph == Init /\ [][NextSubgraph]_vars

(***************************************************************************)
(* Grid                                                                    *)
(***************************************************************************)
\* The state before a Grid is built.
InitGrid ==
    /\ graph = undirected
    /\ call = NoCall
    /\ pc = "start"
    /\ bfs = NoBfs
    /\ yielded = <<>>
    /\ dijkstra = NoDijkstra
    /\ all_predecessors = EmptyMap
    /\ components = NoComponents
    /\ result = NoResult
    /\ grid = NoGrid

graph_vars == <<graph, search_vars>>

\* let grid = Grid::new(width, height, default)
GridNew(width, height, default) ==
    /\ pc = "start"
    /\ grid' = grid_new(width, height, default)
    /\ call' = Call("Grid::new", <<width, height, default>>, None)
    /\ pc' = "grid"
    /\ UNCHANGED <<result, graph_vars>>

\* let grid = Grid::parse_str(input, convert, default)?
ParseStr(input, convert, default) ==
    /\ pc = "start"
    /\ LET r == parse_str(input, convert, default)
       IN  /\ result' = r
           /\ IF r[1] = "Ok"
              THEN grid' = r[2] /\ pc' = "grid"
              ELSE grid' = grid /\ pc' = "failed"
    /\ call' = Call("parse_str", <<input, convert, default>>, None)
    /\ UNCHANGED graph_vars

\* grid.get(x, y)
Get(x, y) ==
    /\ pc = "grid"
    /\ LET r == get(grid, x, y)
       IN  /\ result' = r
           /\ pc' = IF r = Panic THEN "panicked" ELSE pc
    /\ call' = Call("get", <<x, y>>, None)
    /\ UNCHANGED <<grid, graph_vars>>

\* if let Some(cell) = grid.get_mut(x, y) { *cell = v }
GetMut(x, y, v) ==
    /\ pc = "grid"
    /\ LET r == get_mut(grid, x, y, v)
       IN  /\ grid' = IF IsSome(r) THEN Unwrap(r) ELSE grid
           /\ pc' = IF r = Panic THEN "panicked" ELSE pc
           /\ result' = <<r[1]>>
    /\ call' = Call("get_mut", <<x, y, v>>, None)
    /\ UNCHANGED graph_vars

\* grid[(x, y)] = v
IndexMut(x, y, v) ==
    /\ pc = "grid"
    /\ LET r == index_mut(grid, x, y, v)
       IN  /\ grid' = IF IsSome(r) THEN Unwrap(r) ELSE grid
           /\ pc' = IF r = Panic THEN "panicked" ELSE pc
           /\ result' = <<r[1]>>
    /\ call' = Call("index_mut", <<x, y, v>>, None)
    /\ UNCHANGED graph_vars

\* grid.swap(a, b)
Swap(a, b) ==
    /\ pc = "grid"
    /\ LET r == swap(grid, a, b)
       IN  /\ grid' = IF IsSome(r) THEN Unwrap(r) ELSE grid
           /\ pc' = IF r = Panic THEN "panicked" ELSE pc
           /\ result' = <<r[1]>>
    /\ call' = Call("swap", <<a, b>>, None)
    /\ UNCHANGED graph_vars

\* grid.neighbors(x, y)
Neighbors(x, y) ==
    /\ pc = "grid"
    /\ result' = grid_neighbors(grid, x, y)
    /\ call' = Call("neighbors", <<x, y>>, None)
    /\ UNCHANGED <<grid, pc, graph_vars>>

\* grid.cardinal_neighbors(x, y)
CardinalNeighbors(x, y) ==
    /\ pc = "grid"
    /\ result' = cardinal_neighbors(grid, x, y)
    /\ call' = Call("cardinal_neighbors", <<x, y>>, None)
    /\ UNCHANGED <<grid, pc, graph_vars>>

\* grid.idx_to_xy(idx)
IdxToXy(idx) ==
    /\ pc = "grid"
    /\ LET r == idx_to_xy(grid, idx)
       IN  /\ result' = r
           /\ pc' = IF r = Panic THEN "panicked" ELSE pc
    /\ call' = Call("idx_to_xy", <<idx>>, None)
    /\ UNCHANGED <<grid, graph_vars>>

\* grid.iter_row(y).collect()
IterRow(y) ==
    /\ pc = "grid"
    /\ LET r == iter_row(grid, y)
       IN  /\ result' = r
           /\ pc' = IF r = Panic THEN "panicked" ELSE pc
    /\ call' = Call("iter_row", <<y>>, None)
    /\ UNCHANGED <<grid, graph_vars>>

\* grid.iter_col(x).collect()
IterCol(x) ==
    /\ pc = "grid"
    /\ LET r == iter_col(grid, x)
       IN  /\ result' = r
           /\ pc' = IF r = Panic THEN "panicked" ELSE pc
    /\ call' = Call("iter_col", <<x>>, None)
    /\ UNCHANGED <<grid, graph_vars>>

NextGrid ==
    \/ \E width \in Sizes, height \in Sizes, default \in Defaults :
            GridNew(width, height, default)
    \/ \E input \in Texts, convert \in Converts, default \in Defaults :
            ParseStr(input, convert, default)
    \/ \E x \in Coords, y \in Coords : Get(x, y)
    \/ \E x \in Coords, y \in Coords, v \in Written : GetMut(x, y, v)
    \/ \E x \in Coords, y \in Coords, v \in Written : IndexMut(x, y, v)
    \/ \E a \in Coords \X Coords, b \in Coords \X Coords : Swap(a, b)
    \/ \E x \in Coords, y \in Coords : Neighbors(x, y)
    \/ \E x \in Coords, y \in Coords : CardinalNeighbors(x, y)
    \/ \E idx \in Idxs : IdxToXy(idx)
    \/ \E y \in Coords : IterRow(y)
    \/ \E x \in Coords : IterCol(x)

SpecGrid == InitGrid /\ [][NextGrid]_vars

(***************************************************************************)
(* Reference definitions: paths of the graph and their weights, defined  *)
(* from the edge set alone.                                                 *)
(***************************************************************************)
\* the sequences of pairwise distinct nodes
DistinctSeqs ==
    UNION {{p \in [1..n -> Nodes] : \A i, j \in 1..n : i # j => p[i] # p[j]} :
            n \in 1..Cardinality(Nodes)}

NoRepeat(seq) == \A i, j \in 1..Len(seq) : i # j => seq[i] # seq[j]

\* p is a path of g: every consecutive pair is an edge
IsPath(g, p) == Len(p) >= 1 /\ \A i \in 1..(Len(p) - 1) : has_edge(g, p[i], p[i + 1])

RECURSIVE WeightFrom(_, _, _)
WeightFrom(g, p, i) ==
    IF i >= Len(p) THEN 0
    ELSE g.adjacency_map[p[i]][p[i + 1]] + WeightFrom(g, p, i + 1)

\* the sum of the weights of the edges of path p
PathWeight(g, p) == WeightFrom(g, p, 1)

\* the paths from s to e that repeat no node; with weights >= 0 a lightest
\* path is among them
SimplePaths(g, s, e) ==
    {p \in DistinctSeqs : p[1] = s /\ p[Len(p)] = e /\ IsPath(g, p)}

IsReachable(g, s, e) == SimplePaths(g, s, e) # {}

MinWeight(g, s, e) ==
    LET ws == {PathWeight(g, p) : p \in SimplePaths(g, s, e)}
    IN  CHOOSE w \in ws : \A v \in ws : w <= v

OptimalPaths(g, s, e) ==
    {p \in SimplePaths(g, s, e) : PathWeight(g, p) = MinWeight(g, s, e)}

\* the nodes at most one edge away from a node of S
OneStep(g, S) == S \cup {n \in Nodes : \E m \in S : has_edge(g, m, n)}

RECURSIVE Closure(_, _)
Closure(g, S) == IF OneStep(g, S) = S THEN S ELSE Closure(g, OneStep(g, S))

\* the nodes some path leads to from s, s among them
ReachableFrom(g, s) == Closure(g, {s})

RECURSIVE HopsWithin(_, _, _, _)
HopsWithin(g, S, n, k) == IF n \in S THEN k ELSE HopsWithin(g, OneStep(g, S), n, k + 1)

\* the least number of edges of a path from s to n, for n reachable from s
Hops(g, s, n) == HopsWithin(g, {s}, n, 0)

\* the arguments of the search call in progress or last returned
Start == call.args[1]
End == call.args[2]
Returned(op) == call.op = op /\ pc \in {"dijkstra", "aborted", "hung"}

\* the graph with every edge n->n removed
WithoutSelfLoops(g) ==
    [g EXCEPT !.adjacency_map =
        [k \in DOMAIN @ |-> [n \in (DOMAIN @[k]) \ {k} |-> @[k][n]]]]

HasSelfLoop(g) == \E n \in Nodes : has_edge(g, n, n)

(***************************************************************************)
(* Properties                                                              *)
(***************************************************************************)
\* C1: when end is reachable from start, shortest_path returns (path, total)
\* where path runs from start to end along edges of the graph, the weights of
\* its edges sum to total, and total is the least weight of a start-to-end path.
C1_ShortestPathIsShortest ==
    (Returned("shortest_path") /\ IsReachable(graph, Start, End)) =>
        /\ IsSome(result)
        /\ LET path == Unwrap(result)[1]
               total == Unwrap(result)[2]
           IN  /\ Len(path) >= 1
               /\ path[1] = Start
               /\ path[Len(path)] = End
               /\ IsPath(graph, path)
               /\ PathWeight(graph, path) = total
               /\ total = MinWeight(graph, Start, End)

\* C1 witness: a two-edge path is returned although a heavier direct edge exists
C1_Witness ==
    /\ Returned("shortest_path")
    /\ IsSome(result)
    /\ Len(Unwrap(result)[1]) = 3
    /\ has_edge(graph, Start, End)
    /\ graph.adjacency_map[Start][End] > Unwrap(result)[2]

\* C2: when end is reachable from start, all_shortest_paths returns the least
\* start-to-end weight and the list of all lightest start-to-end paths, each
\* exactly once and nothing else, zero-weight edges included.
C2_AllShortestPathsComplete ==
    (Returned("all_shortest_paths") /\ IsReachable(graph, Start, End)) =>
        /\ IsSome(result)
        /\ LET paths == Unwrap(result)[1]
               total == Unwrap(result)[2]
           IN  /\ total = MinWeight(graph, Start, End)
               /\ Range(paths) = OptimalPaths(graph, Start, End)
               /\ NoRepeat(paths)

\* C3: shortest_path and all_shortest_paths return None exactly when no path
\* from start to end exists, and a present result whenever end is reachable;
\* neither fails.
C3_AbsentIffUnreachable ==
    (Returned("shortest_path") \/ Returned("all_shortest_paths")) =>
        /\ pc = "dijkstra"
        /\ result[1] \in {"None", "Some"}
        /\ (result = None) <=> ~IsReachable(graph, Start, End)

\* C4: on a graph with self-loops shortest_path returns what it returns on the
\* graph with every self-loop removed as far as presence and total weight go,
\* and the returned path runs from start and repeats no node.
C4_SelfLoopsHarmless ==
    (Returned("shortest_path") /\ HasSelfLoop(graph)) =>
        LET plain == shortest_path(WithoutSelfLoops(graph), Start, End)
        IN  /\ IsSome(result) <=> IsSome(plain)
            /\ IsSome(result) =>
                /\ Unwrap(result)[2] = Unwrap(plain)[2]
                /\ Len(Unwrap(result)[1]) >= 1
                /\ Unwrap(result)[1][1] = Start
                /\ NoRepeat(Unwrap(result)[1])

\* C4 witness: a path of two nodes is returned from a start that has a
\* self-loop lighter than the edge taken
C4_Witness ==
    /\ Returned("shortest_path")
    /\ IsSome(result)
    /\ Len(Unwrap(result)[1]) = 2
    /\ has_edge(graph, Start, Start)
    /\ graph.adjacency_map[Start][Start] < Unwrap(result)[2]

\* C5: the sequence bfs(start) yields begins with start, holds every node
\* reachable from start exactly once and no other node, and no node is put in
\* the queue twice (the nodes yielded so far followed by the queue are the
\* nodes ever enqueued, in order).
C5_BfsVisitsReachableOnce ==
    pc = "bfs" =>
        LET enqueued == yielded \o bfs.queue
        IN  /\ NoRepeat(enqueued)
            /\ enqueued[1] = Start
            /\ Range(enqueued) \subseteq ReachableFrom(graph, Start)
            /\ bfs.queue = <<>> => Range(yielded) = ReachableFrom(graph, Start)

\* C5 witness: a finished traversal of a directed cycle of three nodes, beside
\* a node of the graph that start does not reach
C5_Witness ==
    /\ pc = "bfs"
    /\ bfs.queue = <<>>
    /\ graph.directed
    /\ Len(yielded) = 3
    /\ has_edge(graph, yielded[3], yielded[1])
    /\ NodeSet(graph) \ Range(yielded) # {}

\* C6: bfs(start) yields the nodes in non-decreasing order of their edge-count
\* distance from start: when a node is yielded, every node fewer edges away
\* has been yielded before it.
C6_BfsOrderedByHops ==
    pc = "bfs" =>
        \A j \in 1..Len(yielded) :
            \A a \in ReachableFrom(graph, Start) :
                Hops(graph, Start, a) < Hops(graph, Start, yielded[j]) =>
                    \E i \in 1..(j - 1) : yielded[i] = a

\* C6 witness: four nodes yielded at distances 0, 1, 1, 2 over edges of
\* different weights
C6_Witness ==
    /\ pc = "bfs"
    /\ Len(yielded) = 4
    /\ Hops(graph, Start, yielded[2]) = 1
    /\ Hops(graph, Start, yielded[3]) = 1
    /\ Hops(graph, Start, yielded[4]) = 2
    /\ yielded[2] > yielded[3]
    /\ \E e, f \in edges(graph) : e[3] # f[3]

\* the node sets of the components yielded so far
ComponentNodeSets == [i \in 1..Len(yielded) |-> Range(nodes(yielded[i]))]

\* C7: the graphs connected_components() yields on an undirected graph
\* partition its node set: no node is in two of them, and once the iterator is
\* exhausted their union is nodes() of the graph, isolated nodes included.
C7_ComponentsPartition ==
    pc = "components" =>
        /\ \A i, j \in 1..Len(yielded) :
                i # j => ComponentNodeSets[i] \cap ComponentNodeSets[j] = {}
        /\ \A i \in 1..Len(yielded) :
                ComponentNodeSets[i] # {} /\ ComponentNodeSets[i] \subseteq NodeSet(graph)
        /\ result = None =>
                UNION Range(ComponentNodeSets) = Range(nodes(graph))

\* C7 witness: the iterator is exhausted after a component of two nodes and a
\* component that is one isolated node
C7_Witness ==
    /\ pc = "components"
    /\ result = None
    /\ Len(yielded) = 2
    /\ \E i \in 1..2 : Cardinality(ComponentNodeSets[i]) = 2
    /\ \E n \in DOMAIN graph.adjacency_map : graph.adjacency_map[n] = EmptyMap

\* C8: connected_components() on a directed graph returns the error and
\* yields nothing; on an undirected graph it returns the iterator.
C8_ComponentsNeedUndirected ==
    call.op = "connected_components" =>
        IF graph.directed
        THEN /\ result = Err("Cannot find connected components of a directed graph")
             /\ pc # "components"
             /\ yielded = <<>>
        ELSE /\ result[1] # "Err"
             /\ pc = "components"

\* C8 witness: the error on the empty directed graph
C8_Witness ==
    /\ call.op = "connected_components"
    /\ graph = directed
    /\ result[1] = "Err"

\* C9: in an undirected graph every edge is mirrored: get_weight(u, v) and
\* get_weight(v, u) are both absent or both present with the same weight.
C9_UndirectedMirrored ==
    ~graph.directed =>
        \A u, v \in Nodes : get_weight(graph, u, v) = get_weight(graph, v, u)

\* C9 witness: an undirected edge that held another weight has been
\* re-inserted from its greater to its smaller endpoint
C9_Witness ==
    /\ ~graph.directed
    /\ call.op = "add_edge_weighted"
    /\ call.args[1] > call.args[2]
    /\ IsSome(call.replaced)
    /\ Unwrap(call.replaced) # call.args[3]
    /\ get_weight(graph, call.args[2], call.args[1]) = Some(call.args[3])

\* C10: an insertion makes get_weight(from, to) the weight just given (one for
\* add_edge), whatever the edge held before; in an undirected graph the same
\* for <<to, from>>; and no call changes get_weight of any other pair, so
\* get_weight is always the weight of the latest insertion.
C10_LastWriteWins ==
    [][LET from == call'.args[1]
           to == call'.args[2]
           written == {<<from, to>>} \cup
                        (IF graph.directed THEN {} ELSE {<<to, from>>})
       IN  /\ call'.op \in {"add_edge", "add_edge_weighted"} =>
                /\ \A p \in written :
                        get_weight(graph', p[1], p[2]) = Some(call'.args[3])
                /\ \A p \in (Nodes \X Nodes) \ written :
                        get_weight(graph', p[1], p[2]) = get_weight(graph, p[1], p[2])
           /\ call'.op = "add_edge" =>
                get_weight(graph', from, to) = Some(1)
           /\ call'.op = "add_node" =>
                \A p \in Nodes \X Nodes :
                    get_weight(graph', p[1], p[2]) = get_weight(graph, p[1], p[2])
      ]_vars

\* C10 witness: a directed edge that held another weight has been re-inserted,
\* the opposite edge being absent
C10_Witness ==
    /\ graph.directed
    /\ call.op = "add_edge_weighted"
    /\ IsSome(call.replaced)
    /\ Unwrap(call.replaced) # call.args[3]
    /\ get_weight(graph, call.args[1], call.args[2]) = Some(call.args[3])
    /\ get_weight(graph, call.args[2], call.args[1]) = None

\* C11: subgraph(S) is a new graph of the same mode as g whose node set is the
\* set of the nodes of S and whose edges are the edges of g with both ends in
\* S, each with its weight in g; the call leaves g as it was.
C11_SubgraphInduced ==
    /\ [](pc = "subgraph" =>
            LET S == Range(call.args[1])
            IN  /\ result.directed = graph.directed
                /\ Range(nodes(result)) = S
                /\ edges(result) = {e \in edges(graph) : e[1] \in S /\ e[2] \in S})
    /\ [][pc' = "subgraph" => graph' = graph]_vars

\* C11 witness: subgraph([1, 2]) of the directed graph 1 -> 2 -> 3 with
\* weights 2 and 1 holds the nodes 1, 2 and the one edge 1 -> 2 of weight 2
C11_Witness ==
    /\ pc = "subgraph"
    /\ call.args[1] = <<1, 2>>
    /\ graph.directed
    /\ edges(graph) = {<<1, 2, 2>>, <<2, 3, 1>>}
    /\ nodes(result) = <<1, 2>>
    /\ edges(result) = {<<1, 2, 2>>}

\* the labels a construction call names, and those it names as a source
CallLabels(c) ==
    IF c.op = "add_node" THEN {c.args[1]}
    ELSE IF c.op \in {"add_edge", "add_edge_weighted"} THEN {c.args[1], c.args[2]}
    ELSE {}

CallSources(c, is_directed) ==
    IF c.op \in {"add_edge", "add_edge_weighted"} /\ is_directed THEN {c.args[1]}
    ELSE CallLabels(c)

\* the targets of the edges a construction call inserts that leave n
CallTargets(c, is_directed, n) ==
    IF c.op \in {"add_edge", "add_edge_weighted"}
    THEN {c.args[2] : x \in {c.args[1]} \cap {n}}
            \cup (IF is_directed THEN {} ELSE {c.args[1] : x \in {c.args[2]} \cap {n}})
    ELSE {}

\* C12: nodes() returns, strictly ascending and so without duplicates, the
\* labels passed to add_node or named as an end of an inserted edge, nothing
\* else (empty at first, and each call adds the labels it names); add_node
\* is idempotent and leaves every edge as it was.
C12_NodesSortedExact ==
    /\ nodes(graph) = <<>>
    /\ [](\A i \in 1..(Len(nodes(graph)) - 1) : nodes(graph)[i] < nodes(graph)[i + 1])
    /\ [][/\ Range(nodes(graph')) = Range(nodes(graph)) \cup CallLabels(call')
          /\ call'.op = "add_node" =>
                /\ edges(graph') = edges(graph)
                /\ add_node(graph', call'.args[1]) = graph']_vars

\* C12 witness: add_node of a label that already has an edge, in a directed
\* graph where nodes() lists three labels, one of them only a target
C12_Witness ==
    /\ call.op = "add_node"
    /\ graph.directed
    /\ \E to \in GraphNodes : has_edge(graph, call.args[1], to)
    /\ Len(nodes(graph)) = 3
    /\ Range(nodes(graph)) \ DOMAIN graph.adjacency_map # {}

\* the nodes neighbors() is present for
HasNeighbors(g) == {n \in Nodes : IsSome(neighbors(g, n))}

\* C13: neighbors(n) is present exactly for the nodes passed to add_node or
\* named as the source of an inserted edge (either end in an undirected
\* graph), so absent for a node that is only a target in a directed graph
\* although nodes() lists it; when present it is the set of the targets of
\* the inserted edges that leave n.
C13_NeighborsPresence ==
    /\ HasNeighbors(graph) = {}
    /\ [][/\ HasNeighbors(graph') = HasNeighbors(graph) \cup CallSources(call', graph.directed)
          /\ \A n \in HasNeighbors(graph') :
                Unwrap(neighbors(graph', n)) =
                    (IF n \in HasNeighbors(graph)
                     THEN Unwrap(neighbors(graph, n)) ELSE {})
                    \cup CallTargets(call', graph.directed, n)]_vars

\* C13 witness: a directed graph where nodes() lists a node that is only a
\* target, whose neighbors() is absent, beside a node with two neighbours
C13_Witness ==
    /\ graph.directed
    /\ call.op \in {"add_edge", "add_edge_weighted"}
    /\ \E n \in Range(nodes(graph)) : neighbors(graph, n) = None
    /\ \E n \in GraphNodes : neighbors(graph, n) = Some(GraphNodes \ {n})

\* (x, y) names a cell of the grid
InBounds(g, x, y) == x < g.width /\ y < g.height

\* the cells of the grid
Cells(g) == {c \in Coords \X Coords : InBounds(g, c[1], c[2])}

\* C14: every Grid built by new or by a successful parse, and every grid
\* reached from it by get_mut writes, indexed writes and swaps, has a backing
\* sequence of width * height cells, the cell (x, y) at index y * width + x,
\* whatever characters the parsed text holds.
C14_GridShape ==
    pc \in {"grid", "panicked"} =>
        /\ Len(grid.data) = grid.width * grid.height
        /\ \A c \in Cells(grid) :
                get(grid, c[1], c[2]) = Some(grid.data[c[2] * grid.width + c[1] + 1])

\* C15: on a grid built by new(w, h, default), get(x, y) returns Some(default)
\* when x < w and y < h and None, without failing, for every other
\* coordinate; a grid with w = 0 or h = 0 has no cell.
C15_NewFilled ==
    [][(call.op = "Grid::new" /\ call'.op = "get") =>
            result' = IF call'.args[1] < call.args[1] /\ call'.args[2] < call.args[2]
                      THEN Some(call.args[3])
                      ELSE None]_vars

\* C15 witness: get(1, 2) returned None on the 2 x 2 grid new built, whose
\* cells all hold the default
C15_Witness ==
    /\ call = Call("get", <<1, 2>>, None)
    /\ result = None
    /\ grid \in {grid_new(2, 2, default) : default \in Defaults}

\* C16: a write of v at an in-bounds (x, y) through get_mut or indexed
\* assignment succeeds, get(x, y) then returns v, every other cell holds what
\* it held, and width and height are what they were.
C16_WriteReadRoundTrip ==
    [][/\ (/\ call'.op \in {"get_mut", "index_mut"}
           /\ InBounds(grid, call'.args[1], call'.args[2])) =>
                /\ pc' = "grid"
                /\ grid'.width = grid.width /\ grid'.height = grid.height
                /\ get(grid', call'.args[1], call'.args[2]) = Some(call'.args[3])
                /\ \A c \in Cells(grid) \ {<<call'.args[1], call'.args[2]>>} :
                        get(grid', c[1], c[2]) = get(grid, c[1], c[2])
       /\ (/\ call.op \in {"get_mut", "index_mut"}
           /\ call'.op = "get"
           /\ InBounds(grid, call.args[1], call.args[2])
           /\ call'.args = <<call.args[1], call.args[2]>>) =>
                result' = Some(call.args[3])]_vars

\* C17: swap(a, b) of two in-bounds cells (a = b included) succeeds,
\* exchanges the contents of a and b, leaves every other cell, the width and
\* the height as they were, and a second swap(a, b) restores the grid.
C17_SwapInvolution ==
    [][(/\ call'.op = "swap"
        /\ call'.args[1] \in Cells(grid)
        /\ call'.args[2] \in Cells(grid)) =>
            LET a == call'.args[1]
                b == call'.args[2]
            IN  /\ pc' = "grid"
                /\ grid'.width = grid.width /\ grid'.height = grid.height
                /\ get(grid', a[1], a[2]) = get(grid, b[1], b[2])
                /\ get(grid', b[1], b[2]) = get(grid, a[1], a[2])
                /\ \A c \in Cells(grid) \ {a, b} :
                        get(grid', c[1], c[2]) = get(grid, c[1], c[2])
                /\ swap(grid', a, b) = Some(grid)]_vars

\* the characters of the lines, in row-major order, that the conversion rejects
Rejected(ls, convert) ==
    SelectSeq(flat_chars(ls), LAMBDA c : convert[c][1] = "Err")

\* the lines do not all hold the same number of characters
Ragged(ls) == \E i, j \in 1..Len(ls) : Len(ls[i]) # Len(ls[j])

\* C18: parse fails and returns no grid whenever the lines of the text do not
\* all have the same length, whatever the conversion; and when they have, but
\* the conversion rejects a character, it fails with the conversion's error
\* for the first rejected character in row-major order.
C18_ParseFails ==
    call.op = "parse_str" =>
        LET ls == lines(call.args[1])
            convert == call.args[2]
        IN  /\ Ragged(ls) => pc = "failed" /\ result[1] = "Err"
            /\ (~Ragged(ls) /\ Rejected(ls, convert) # <<>>) =>
                    pc = "failed" /\ result = convert[Rejected(ls, convert)[1]]

\* C19: when all lines have equal length and the conversion accepts every
\* character, parse succeeds with height the number of lines, width the
\* number of characters of a line and get(x, y) the conversion of character x
\* of line y; the empty text gives the 0 x 0 grid.
C19_ParseRowMajor ==
    call.op = "parse_str" =>
        LET ls == lines(call.args[1])
            convert == call.args[2]
        IN  (~Ragged(ls) /\ Rejected(ls, convert) = <<>>) =>
                /\ pc = "grid"
                /\ grid.height = Len(ls)
                /\ grid.width = IF ls = <<>> THEN 0 ELSE Len(ls[1])
                /\ \A y \in 0..(Len(ls) - 1) : \A x \in 0..(Len(ls[y + 1]) - 1) :
                        get(grid, x, y) = Some(convert[ls[y + 1][x + 1]][2])

\* C20: at a cell (x, y) of the grid, every coordinate cardinal_neighbors
\* returns is one neighbors returns, every returned coordinate is in bounds
\* and differs from (x, y), cardinal_neighbors lists up, right, down, left in
\* that order, and either result is empty only on the 1 x 1 grid.
C20_NeighborsRelated ==
    (/\ call.op \in {"neighbors", "cardinal_neighbors"}
     /\ InBounds(grid, call.args[1], call.args[2])) =>
        LET x == call.args[1]
            y == call.args[2]
            around == <<<<x, y - 1>>, <<x + 1, y>>, <<x, y + 1>>, <<x - 1, y>>>>
        IN  /\ call.op = "cardinal_neighbors" =>
                /\ result = SelectSeq(around,
                        LAMBDA c : c[1] >= 0 /\ c[2] >= 0 /\ InBounds(grid, c[1], c[2]))
                /\ Range(result) \subseteq Range(grid_neighbors(grid, x, y))
            /\ call.op = "neighbors" =>
                Range(cardinal_neighbors(grid, x, y)) \subseteq Range(result)
            /\ \A i \in 1..Len(result) :
                /\ result[i][1] >= 0 /\ result[i][2] >= 0
                /\ InBounds(grid, result[i][1], result[i][2])
                /\ result[i] # <<x, y>>
            /\ result = <<>> => grid.width = 1 /\ grid.height = 1

\* C20 witness: cardinal_neighbors(1, 0) on a 2 x 2 grid returned the cell
\* below and then the cell to the left
C20_Witness ==
    /\ call = Call("cardinal_neighbors", <<1, 0>>, None)
    /\ grid.width = 2 /\ grid.height = 2
    /\ result = <<<<1, 1>>, <<0, 0>>>>

\* C21: idx_to_xy inverts the linear-index mapping: it returns (x, y) when
\* called with y * width + x for an in-bounds (x, y), for an idx below
\* width * height it returns an in-bounds (x, y) with y * width + x = idx, and
\* it does not fail on any grid, zero-sized ones included.
C21_IdxToXyInverse ==
    call.op = "idx_to_xy" =>
        LET idx == call.args[1]
        IN  /\ IsSome(result)
            /\ \A c \in Cells(grid) :
                    c[2] * grid.width + c[1] = idx => result = Some(c)
            /\ idx < grid.width * grid.height =>
                    /\ InBounds(grid, Unwrap(result)[1], Unwrap(result)[2])
                    /\ Unwrap(result)[2] * grid.width + Unwrap(result)[1] = idx

\* C22: iter_row(y) of a row y yields the width cells (0, y) .. (width-1, y)
\* in that order, and iter_col(x) of a column x the height cells (x, 0) ..
\* (x, height-1) in that order, and nothing else.
C22_RowsAndColumns ==
    /\ (call.op = "iter_row" /\ call.args[1] < grid.height) =>
            /\ IsSome(result)
            /\ Len(Unwrap(result)) = grid.width
            /\ \A x \in 0..(grid.width - 1) :
                    Some(Unwrap(result)[x + 1]) = get(grid, x, call.args[1])
    /\ (call.op = "iter_col" /\ call.args[1] < grid.width) =>
            /\ IsSome(result)
            /\ Len(Unwrap(result)) = grid.height
            /\ \A y \in 0..(grid.height - 1) :
                    Some(Unwrap(result)[y + 1]) = get(grid, call.args[1], y)

\* C23: a second shortest_path(end) or all_shortest_paths(end) on a Dijkstra
\* object a query has returned from, for the same end or another, returns
\* what a fresh search from start on the same graph returns.
C23_RetrySameOutcome ==
    /\ (Returned("shortest_path") /\ IsSome(call.replaced)) =>
            result = shortest_path(graph, Start, End)
    /\ (Returned("all_shortest_paths") /\ IsSome(call.replaced)) =>
            result = all_shortest_paths(graph, Start, End)

\* C24: shortest_path returns the same path and the same weight whatever the
\* order in which the neighbour maps are iterated: what it returns is what
\* the search returns on the graph of that content with the one fixed order.
C24_OrderIndependent ==
    Returned("shortest_path") => result = shortest_path(graph, Start, End)

\* C24 witness: a path of three nodes is returned from a start with two
\* neighbours, one of them the end of a heavier direct edge
C24_Witness ==
    /\ Returned("shortest_path")
    /\ IsSome(result)
    /\ Len(Unwrap(result)[1]) = 3
    /\ DOMAIN graph.adjacency_map[Start] = OrderNodes \ {Start}
    /\ graph.adjacency_map[Start][End] > Unwrap(result)[2]

\* the nodes a search has expanded (or returned at): they have a recorded
\* distance and their queue entry of that distance has been popped
Expanded(d) == {m \in DOMAIN d.distances : State(m, d.distances[m]) \notin d.queue}

\* the search loop is about to pop a stale entry: one of a node other than
\* end whose distance exceeds the recorded best
PopsStale ==
    /\ dijkstra.queue # {}
    /\ LET top == heap_top(dijkstra.queue)
       IN  /\ top.node # End
           /\ top.node \in DOMAIN dijkstra.distances
           /\ top.distance > dijkstra.distances[top.node]

\* C25: in shortest_path and all_shortest_paths a popped entry whose distance
\* exceeds the node's recorded best is skipped: the step removes it and
\* changes nothing else; a node once expanded stays expanded with the same
\* distance, so it relaxes its edges at most once; and an entry that is
\* expanded has a distance no less than that of every node expanded before.
C25_StaleSkipped ==
    [][(pc \in {"shortest_path", "all_shortest_paths"}) =>
        ( /\ PopsStale =>
                /\ dijkstra' = [dijkstra EXCEPT !.queue = @ \ {heap_top(dijkstra.queue)}]
                /\ all_predecessors' = all_predecessors
                /\ pc' = pc /\ result' = result
          /\ \A m \in Expanded(dijkstra) :
                /\ m \in Expanded(dijkstra')
                /\ dijkstra'.distances[m] = dijkstra.distances[m]
          /\ (dijkstra.queue # {} /\ ~PopsStale) =>
                \A m \in Expanded(dijkstra) :
                    dijkstra.distances[m] <= heap_top(dijkstra.queue).distance )]_vars

\* C25 witness: a search has emptied its queue, and a node's recorded
\* distance is less than the weight of the edge from start to it: the entry
\* pushed for that edge was superseded, popped and skipped
C25_Witness ==
    /\ pc \in {"shortest_path", "all_shortest_paths"}
    /\ dijkstra.queue = {}
    /\ \E n \in DOMAIN dijkstra.distances :
        /\ n \notin {Start, End}
        /\ has_edge(graph, Start, n)
        /\ dijkstra.distances[n] < graph.adjacency_map[Start][n]

\* the expanded nodes whose edge to n closes a path of n's recorded distance
TightPredecessors(n) ==
    {p \in Expanded(dijkstra) :
        /\ has_edge(graph, p, n)
        /\ n \in DOMAIN dijkstra.distances
        /\ dijkstra.distances[p] + graph.adjacency_map[p][n] = dijkstra.distances[n]}

\* C26: at every step of all_shortest_paths the predecessor list of each node
\* holds, without duplicates, exactly the expanded nodes whose edge to it
\* closes a path of its recorded best distance, and the start node has no
\* predecessor (build_paths takes a node without a list for the start).
C26_PredecessorLists ==
    pc = "all_shortest_paths" =>
        /\ \A n \in Nodes :
            /\ NoRepeat(PredList(all_predecessors, n))
            /\ Range(PredList(all_predecessors, n)) = TightPredecessors(n)
        /\ PredList(all_predecessors, Start) = <<>>

\* one call of next(): a non-empty queue loses its head and gains only nodes
\* that were never queued before; an empty queue yields None and stays empty
C27_Step ==
    pc = "bfs" =>
        /\ bfs.queue # <<>> =>
            /\ Len(bfs'.queue) >= Len(bfs.queue) - 1
            /\ SubSeq(bfs'.queue, 1, Len(bfs.queue) - 1) = Tail(bfs.queue)
            /\ \A i \in Len(bfs.queue)..Len(bfs'.queue) :
                    bfs'.queue[i] \notin bfs.visited
            /\ result' = Some(Head(bfs.queue))
        /\ bfs.queue = <<>> => (bfs' = bfs /\ result' = None)

\* C27: iteration of bfs(start) terminates on every graph and start node:
\* the queue is eventually empty and next() returns None, from then on at
\* every call; each call removes one node from the queue; and no node is
\* queued twice.
C27_BfsTerminates ==
    /\ (pc = "bfs") ~> (bfs.queue = <<>> /\ result = None)
    /\ [][C27_Step]_vars
    /\ [](pc = "bfs" =>
            /\ NoRepeat(yielded \o bfs.queue)
            /\ Range(yielded \o bfs.queue) = bfs.visited)

\* C27 witness: the iteration over a graph with a cycle and a self-loop has
\* returned three nodes and then None
C27_Witness ==
    /\ pc = "bfs" /\ bfs.queue = <<>> /\ result = None
    /\ Len(yielded) = 3
    /\ \E n \in Range(yielded) : has_edge(graph, n, n)
    /\ \E a, b \in Range(yielded) :
        a # b /\ has_edge(graph, a, b) /\ has_edge(graph, b, a)

\* the smallest node of a non-empty node set
Smallest(S) == CHOOSE n \in S : \A m \in S : n <= m

\* C28: the components connected_components() yields on an undirected graph
\* come in ascending order of their smallest node; each is connected and
\* maximal (no edge of the graph leaves it); and each holds exactly the
\* graph's edges between its nodes, with their weights, in both directions.
C28_ComponentsOrderedMaximal ==
    pc = "components" =>
        /\ \A i, j \in 1..Len(yielded) :
                i < j => Smallest(ComponentNodeSets[i]) < Smallest(ComponentNodeSets[j])
        /\ \A i \in 1..Len(yielded) :
            /\ \A a, b \in ComponentNodeSets[i] : b \in ReachableFrom(graph, a)
            /\ \A a \in ComponentNodeSets[i], b \in Nodes :
                    has_edge(graph, a, b) => b \in ComponentNodeSets[i]
            /\ ~yielded[i].directed
            /\ \A a, b \in ComponentNodeSets[i] :
                /\ get_weight(yielded[i], a, b) = get_weight(graph, a, b)
                /\ get_weight(yielded[i], b, a) = get_weight(graph, a, b)

\* C28 witness: the iterator is exhausted after the component of nodes 1 and 3,
\* joined by an edge of weight 2, and then the component of node 2
C28_Witness ==
    /\ pc = "components"
    /\ result = None
    /\ Len(yielded) = 2
    /\ ComponentNodeSets[1] = {1, 3}
    /\ ComponentNodeSets[2] = {2}
    /\ get_weight(yielded[1], 3, 1) = Some(2)

\* C29: all_shortest_paths(end) terminates on every graph with non-negative
\* weights, zero-weight self-loops and cycles included: a call that has begun
\* returns None or the paths, and build_paths never runs out of stack.
C29_AllShortestPathsTerminates ==
    /\ (pc = "all_shortest_paths") ~>
            (Returned("all_shortest_paths") /\ result[1] \in {"None", "Some"})
    /\ [](call.op = "all_shortest_paths" => pc # "aborted")

\* the state of a shortest_path search is sound: the start node has distance
\* zero and no predecessor; every other node with a distance has a
\* predecessor whose distance plus the edge's weight is that distance; and
\* the predecessor links of every such node lead back to start along a path
\* of the graph whose weight is the node's distance, which is therefore no
\* less than the least start-to-node weight
C30_Sound ==
    /\ Start \in DOMAIN dijkstra.distances
    /\ dijkstra.distances[Start] = 0
    /\ Start \notin DOMAIN dijkstra.predecessors
    /\ \A n \in DOMAIN dijkstra.distances \ {Start} :
        /\ n \in DOMAIN dijkstra.predecessors
        /\ LET p == dijkstra.predecessors[n]
           IN  /\ p \in DOMAIN dijkstra.distances
               /\ has_edge(graph, p, n)
               /\ dijkstra.distances[p] + graph.adjacency_map[p][n]
                        = dijkstra.distances[n]
    /\ \A n \in DOMAIN dijkstra.distances :
        LET path == reconstruct_path(dijkstra, n)
        IN  /\ path # <<>>
            /\ path[1] = Start /\ path[Len(path)] = n
            /\ IsPath(graph, path)
            /\ PathWeight(graph, path) = dijkstra.distances[n]
            /\ dijkstra.distances[n] >= MinWeight(graph, Start, n)

\* an iteration of the loop drops no recorded distance and raises none
C30_Step ==
    (pc = "shortest_path") =>
        \A n \in DOMAIN dijkstra.distances :
            /\ n \in DOMAIN dijkstra'.distances
            /\ dijkstra'.distances[n] <= dijkstra.distances[n]

\* C30: at every step of shortest_path the recorded distances are weights of
\* actual paths from start, never below the least weight, and never increase;
\* start has distance zero and no predecessor; every other recorded node has a
\* predecessor p with dist(p) + weight(p, n) = dist(n); and the predecessor
\* links lead back to start, so path reconstruction terminates.
C30_DistancesSound ==
    /\ [](call.op = "shortest_path" => C30_Sound)
    /\ [][C30_Step]_vars

\* C30 witness: during shortest_path the distance of a neighbour of start has
\* been lowered below the weight of the direct edge, and its predecessor
\* links lead back to start over another node
C30_Witness ==
    /\ pc = "shortest_path"
    /\ \E n \in DOMAIN dijkstra.distances \ {Start} :
        /\ has_edge(graph, Start, n)
        /\ dijkstra.distances[n] < graph.adjacency_map[Start][n]
        /\ Len(reconstruct_path(dijkstra, n)) = 3
====
